---- MODULE Spec2Model ----
(***************************************************************************)
(* Model of the WhatsApp lead-qualification webhook of src/index.js        *)
(* (lines 1-626, the most complete iteration): the in-memory leads map,    *)
(* the /whatsapp handler and the processInbound task it starts, with every *)
(* await of processInbound a point where other events may interleave.      *)
(*                                                                         *)
(* One action is one turn of the Node event loop (one macrotask): an       *)
(* inbound HTTP request, the settling of an inference call (response,      *)
(* error or deadline timer), or the settling of a carrier (Twilio) call.   *)
(* An await on a promise that is already resolved (sendWhatsApp when       *)
(* outbound is suppressed) resumes in the microtask phase of the same      *)
(* turn, so the code after it belongs to the same action.                  *)
(*                                                                         *)
(* Texts are written without emoji and accents.  Message entries carry no  *)
(* wall-clock timestamp; each carries instead the arrival number (id) of   *)
(* the inbound event it belongs to, which is bookkeeping of the model.     *)
(*                                                                         *)
(* Only({e : x \in {v}}) reads "let x be v in e", with v evaluated once.   *)
(***************************************************************************)
EXTENDS Integers, Sequences, FiniteSets, TLC

Only(S) == CHOOSE r \in S : TRUE

\* Number of inbound webhook events of one run.
MaxInbound == 2

\* ------------------------------------------------------------------ inputs

\* Values of req.body.From and req.body.Body.
Froms == {"whatsapp:+5491", "whatsapp:+5492"}
Bodies == {"Hola ", "necesito presupuesto"}

\* JSON values of the provider's parsed output: <<typeof, value>>.
undefined == <<"undefined", "">>
string(v) == <<"string", v>>
Output(reply, name, zone, intentSummary, handoff_intent) ==
  [reply |-> reply, name |-> name, zone |-> zone, intentSummary |-> intentSummary,
   handoff_intent |-> handoff_intent]

\* The parsed provider outputs of the model: small talk, a price request with
\* nothing extracted and a blank reply, a price request with the name, the
\* remaining fields with an invalid intent, a visit request with only the
\* interest, and a visit request with all three fields (other values).
Parsed ==
  { Output(string("Dale, te ayudo"), undefined, undefined, undefined, string("none")),
    Output(string(" "), undefined, undefined, undefined, string("price")),
    Output(string("Dale, te ayudo"), string("Ana"), undefined, undefined, string("price")),
    Output(string("Dale, te ayudo"), undefined, string("Fisherton"), string("roller living"), string("humano")),
    Output(string(" "), undefined, undefined, string("toldo"), string("visit")),
    Output(string("Dale, te ayudo"), string(" Bea"), string("Centro"), string("toldo"), string("visit")) }

\* Ways an inference attempt fails: deadline timer first (also a provider that
\* never answers), API error, output without braces, JSON.parse error.
AiFailures == {"timeout", "api_error", "ai_output_not_json", "json_syntax"}

\* ----------------------------------------------------------------- strings

\* String.prototype.trim on the strings of the model.
trim(s) ==
  CASE s = "Hola " -> "Hola"
    [] s = " " -> ""
    [] s = " Bea" -> "Bea"
    [] OTHER -> s

\* a toLowerCase that changes nothing
toLowerCase_identity(s) == s

\* String.prototype.toLowerCase on the strings of the model.
toLowerCase(s) ==
  CASE s = "Hola" -> "hola"
    [] OTHER -> s

\* a normalisation that maps every sender to one number
normalizePhone_oneNumber(from) == "+5491"

normalizePhone(from) ==
  CASE from = "whatsapp:+5491" -> "+5491"
    [] from = "whatsapp:+5492" -> "+5492"
    [] OTHER -> "unknown"

Phones == {normalizePhone(f) : f \in Froms}

null == [type |-> "null"]

safeHandoffType(t) == IF t = "visit" \/ t = "price" THEN t ELSE "null"

greetings == {"hola", "holaa", "holaaa", "buenas", "buen dia", "buenos dias", "buenas tardes", "buenas noches", "hello", "hi", "hey"}

isTrivialGreeting(text) ==
  LET t == toLowerCase(trim(text))
  IN  \/ t = ""
      \/ Len(t) <= 3
      \/ t \in greetings

HELLO == "Hola Soy Caia, asistente de Cortinas Argentinas. En que te puedo ayudar?"
TECH_FALLBACK == "Disculpa, tuve un problema tecnico. Me contas brevemente que tipo de cortina buscas y para que ambiente?"

\* a question for the first missing field only
askMissingForHandoff_oneField(lead) ==
  IF lead.intentSummary = ""
    THEN "Perfecto Antes de derivarte, me contas brevemente que estas buscando?"
  ELSE IF lead.name = "" THEN "Dale Antes de pasarte con un asesor, me decis tu nombre?"
  ELSE IF lead.zone = "" THEN "Perfecto En que zona/barrio estas (Rosario o alrededores)?"
  ELSE "Perfecto"

askMissingForHandoff(lead) ==
  LET missingName == lead.name = ""
      missingZone == lead.zone = ""
      missingIntent == lead.intentSummary = ""
  IN  IF missingIntent /\ (missingName \/ missingZone)
        THEN "Perfecto Antes de derivarte, me contas brevemente que estas buscando y tu nombre + zona/barrio?"
      ELSE IF missingIntent
        THEN "Perfecto Antes de derivarte, me contas brevemente que estas buscando?"
      ELSE IF missingName /\ missingZone
        THEN "Dale Antes de pasarte con un asesor, me decis tu nombre y en que zona/barrio estas?"
      ELSE IF missingName THEN "Dale Antes de pasarte con un asesor, me decis tu nombre?"
      ELSE IF missingZone THEN "Perfecto En que zona/barrio estas (Rosario o alrededores)?"
      ELSE "Perfecto"

\* The fields each text of askMissingForHandoff asks the customer for.
asks(text) ==
  CASE text = "Perfecto Antes de derivarte, me contas brevemente que estas buscando y tu nombre + zona/barrio?"
         -> {"intentSummary", "name", "zone"}
    [] text = "Perfecto Antes de derivarte, me contas brevemente que estas buscando?"
         -> {"intentSummary"}
    [] text = "Dale Antes de pasarte con un asesor, me decis tu nombre y en que zona/barrio estas?"
         -> {"name", "zone"}
    [] text = "Dale Antes de pasarte con un asesor, me decis tu nombre?" -> {"name"}
    [] text = "Perfecto En que zona/barrio estas (Rosario o alrededores)?" -> {"zone"}
    [] OTHER -> {}

ackText(lead) ==
  "Gracias" \o (IF lead.name # "" THEN ", " \o lead.name ELSE "") \o "! Ya se lo pase al asesor"

confirmText(lead) ==
  "Perfecto" \o (IF lead.name # "" THEN ", " \o lead.name ELSE "") \o ". Ya te paso con un asesor. Gracias por escribirnos."

\* ------------------------------------------------------------------- state

VARIABLES DEV_MODE, FAST_ACK, HANDOFF_TO, leads, files, tasks, stats

vars == <<DEV_MODE, FAST_ACK, HANDOFF_TO, leads, files, tasks, stats>>
config == <<DEV_MODE, FAST_ACK, HANDOFF_TO>>

\* The logical clock: the number of inbound events received so far.
nowTs == Len(tasks)

NewLead(phone, now) ==
  [phone |-> phone, name |-> "", zone |-> "", intentSummary |-> "",
   messages |-> <<>>, createdAt |-> now, handedOff |-> FALSE, pendingHandoff |-> null]

\* getLead without its guard: a fresh lead on every call
getLead_fresh(ls, phone, now) ==
  [x \in DOMAIN ls \cup {phone} |-> IF x = phone THEN NewLead(phone, now) ELSE ls[x]]

\* leads is a function on the phones seen so far.
getLead(ls, phone, now) ==
  IF phone \in DOMAIN ls THEN ls ELSE ls @@ (phone :> NewLead(phone, now))

\* assignment of a one-entry list instead of push
appendMessage_assign(lead, fromLabel, text, id) ==
  [lead EXCEPT !.messages = <<[from |-> fromLabel, text |-> text, id |-> id]>>]

\* unshift instead of push
appendMessage_unshift(lead, fromLabel, text, id) ==
  [lead EXCEPT !.messages = <<[from |-> fromLabel, text |-> text, id |-> id]>> \o @]

appendMessage(lead, fromLabel, text, id) ==
  [lead EXCEPT !.messages = Append(@, [from |-> fromLabel, text |-> text, id |-> id])]

buildTranscript(lead) ==
  [phone |-> lead.phone,
   name |-> IF lead.name # "" THEN lead.name ELSE "sin_nombre",
   zone |-> IF lead.zone # "" THEN lead.zone ELSE "sin_zona",
   intentSummary |-> IF lead.intentSummary # "" THEN lead.intentSummary ELSE "sin_contexto",
   createdAt |-> lead.createdAt,
   handedOff |-> lead.handedOff,
   pendingHandoff |-> lead.pendingHandoff,
   body |-> lead.messages]

\* a transcript file that is written when missing and never rewritten
upsertConversationFile_once(w) ==
  IF w.file = <<>> THEN [w EXCEPT !.file = buildTranscript(w.lead)] ELSE w

\* A world is what one turn of one task reads and writes: the lead, its
\* transcript file, the bookkeeping of its side effects, the task and the time.
upsertConversationFile(w) == [w EXCEPT !.file = buildTranscript(w.lead)]

saveLeadSnapshot(w, tag) ==
  [w EXCEPT !.st.snapshots = Append(@, [tag |-> tag, transcript |-> buildTranscript(w.lead)])]

SendPcs == {"send_final", "send_ho", "send_forward", "send_confirm", "send_notify"}
AiPcs == {"ai_main", "ai_retry"}

\* sendWhatsApp without its test of DEV_MODE
sendWhatsApp_noDevCheck(w, to, pc) ==
  IF to = "" THEN [w EXCEPT !.task.handed = @ \cup {pc}]
  ELSE [w EXCEPT !.task.handed = @ \cup {pc}, !.st.sent[pc] = @ + 1, !.task.pc = pc]

\* sendWhatsApp(to, body): nothing when there is no destination or outbound is
\* suppressed; otherwise one carrier call, on which the caller is suspended at pc.
\* task.handed keeps the sends the task has asked for, suppressed or not.
sendWhatsApp(w, to, pc) ==
  IF to = "" THEN [w EXCEPT !.task.handed = @ \cup {pc}]
  ELSE IF DEV_MODE THEN [w EXCEPT !.task.handed = @ \cup {pc}]
  ELSE [w EXCEPT !.task.handed = @ \cup {pc}, !.st.sent[pc] = @ + 1, !.task.pc = pc]

Awaiting(w) == w.task.pc \in SendPcs

\* a handler whose finally block does not answer the request
Finish_noAck(w) == [w EXCEPT !.task.pc = "done"]

\* processInbound returns: the promise resolves; without FAST_ACK the handler's
\* finally block answers the request now.
Finish(w) == [w EXCEPT !.task.pc = "done", !.task.acked = TRUE]

\* a handler that leaves the request unanswered when processInbound rejects
Throw_noAck(w) ==
  IF FAST_ACK
    THEN upsertConversationFile(
           [w EXCEPT !.lead = appendMessage(@, "system", "PROCESS_INBOUND_ERR: carrier error", w.task.id),
                     !.task.pc = "failed"])
    ELSE [w EXCEPT !.task.pc = "failed"]

\* processInbound rejects with an error of the carrier: with FAST_ACK the
\* .catch records it; otherwise the catch logs it and finally answers the request.
Throw(w) ==
  IF FAST_ACK
    THEN upsertConversationFile(
           [w EXCEPT !.lead = appendMessage(@, "system", "PROCESS_INBOUND_ERR: carrier error", w.task.id),
                     !.task.pc = "failed"])
    ELSE [w EXCEPT !.task.pc = "failed", !.task.acked = TRUE]

\* a doHandoff that does nothing at all under DEV_MODE
doHandoff_suppressed(w, reasonTag) ==
  IF w.lead.handedOff \/ DEV_MODE THEN w
  ELSE Only({ IF HANDOFF_TO # ""
                THEN sendWhatsApp(w2, HANDOFF_TO, "send_notify")
              ELSE w2 :
              w2 \in {upsertConversationFile(saveLeadSnapshot(
                         [w EXCEPT !.lead.handedOff = TRUE, !.st.handoffs = @ + 1], reasonTag))} })

\* doHandoff without its guard on lead.handedOff
doHandoff_unguarded(w, reasonTag) ==
  Only({ IF DEV_MODE
           THEN upsertConversationFile(
                  [w2 EXCEPT !.lead = appendMessage(@, "system", "DEV_MODE: handoff suprimido. Tag=" \o reasonTag, w.task.id)])
         ELSE IF HANDOFF_TO # ""
           THEN sendWhatsApp(w2, HANDOFF_TO, "send_notify")
         ELSE w2 :
         w2 \in {upsertConversationFile(saveLeadSnapshot(
                    [w EXCEPT !.lead.handedOff = TRUE, !.st.handoffs = @ + 1], reasonTag))} })

doHandoff(w, reasonTag) ==
  IF w.lead.handedOff THEN w
  ELSE Only({ IF DEV_MODE
                THEN upsertConversationFile(
                       [w2 EXCEPT !.lead = appendMessage(@, "system", "DEV_MODE: handoff suprimido. Tag=" \o reasonTag, w.task.id)])
              ELSE IF HANDOFF_TO # ""
                THEN sendWhatsApp(w2, HANDOFF_TO, "send_notify")
              ELSE w2 :
              w2 \in {upsertConversationFile(saveLeadSnapshot(
                         [w EXCEPT !.lead.handedOff = TRUE, !.st.handoffs = @ + 1], reasonTag))} })

\* a continuation that hands off without clearing pendingHandoff
AfterConfirm_keepsPending(w) ==
  Only({ IF Awaiting(w2) THEN w2 ELSE Finish(w2) :
         w2 \in { doHandoff(w1, w.task.activeType) : w1 \in {upsertConversationFile(w)} } })

\* processInbound after the confirmation was sent (lines 560-565).
AfterConfirm(w) ==
  Only({ IF Awaiting(w2) THEN w2 ELSE Finish(w2) :
         w2 \in { doHandoff(w1, w.task.activeType) :
                  w1 \in {upsertConversationFile([w EXCEPT !.lead.pendingHandoff = null])} } })

\* processInbound after the post-handoff acknowledgment was sent (lines 447-458).
AfterHandedOffReply(w) ==
  IF ~DEV_MODE /\ HANDOFF_TO # ""
    THEN Only({ IF Awaiting(w1) THEN w1 ELSE Finish(w1) :
                w1 \in {sendWhatsApp(w, HANDOFF_TO, "send_forward")} })
    ELSE Finish(w)

\* a reply that is appended twice
ReplyAndReturn_twice(w, text) ==
  Only({ IF Awaiting(w2) THEN w2 ELSE Finish(w2) :
         w2 \in { sendWhatsApp(w1, w.task.from, "send_final") :
                  w1 \in {upsertConversationFile(
                            [w EXCEPT !.lead = appendMessage(appendMessage(@, "bot", text, w.task.id),
                                                             "bot", text, w.task.id)])} } })

\* appendMessage(lead, "bot", text); upsertConversationFile(lead);
\* await sendWhatsApp(from, text); return.
ReplyAndReturn(w, text) ==
  Only({ IF Awaiting(w2) THEN w2 ELSE Finish(w2) :
         w2 \in { sendWhatsApp(w1, w.task.from, "send_final") :
                  w1 \in {upsertConversationFile(
                            [w EXCEPT !.lead = appendMessage(@, "bot", text, w.task.id)])} } })

\* --------------------------------------------------------------- inference

\* typeof v === "string" ? v.trim() : ""
str(v) == IF v[1] = "string" THEN trim(v[2]) ELSE ""

\* The object aiDecideAndReply returns for a parsed provider output.
aiDecideAndReply(parsed) ==
  [reply |-> str(parsed.reply),
   name |-> str(parsed.name),
   zone |-> str(parsed.zone),
   intentSummary |-> str(parsed.intentSummary),
   handoff_intent |->
     IF parsed.handoff_intent[2] \in {"price", "visit", "none"}
       THEN parsed.handoff_intent[2] ELSE "none"]

\* a merge in which the last non-empty value wins
mergeField_lastWins(cur, new) == IF new # "" THEN new ELSE cur

\* if (!lead.f && out.f) lead.f = out.f
mergeField(cur, new) == IF cur = "" /\ new # "" THEN new ELSE cur

\* getLead creates no availability property: lead.availability is undefined.
availability(lead) == ""

\* readiness that forgets the name
ready_noName(lead) == lead.intentSummary # "" /\ lead.zone # ""

\* readiness that forgets the zone
ready_noZone(lead) == lead.intentSummary # "" /\ lead.name # ""

ready(lead) == lead.intentSummary # "" /\ lead.name # "" /\ lead.zone # ""

\* activeHandoffType = pendingType || aiHandoff
activeHandoffType(pendingType, out) ==
  LET aiHandoff == safeHandoffType(IF out.handoff_intent = "price" THEN "price"
                                   ELSE IF out.handoff_intent = "visit" THEN "visit"
                                   ELSE "null")
  IN  IF pendingType # "null" THEN pendingType ELSE aiHandoff

\* a not-ready branch that rewrites pendingHandoff on every turn
rememberPending_refresh(lead, active, now) ==
  [lead EXCEPT !.pendingHandoff = [type |-> active, requestedAt |-> now]]

\* if (!lead.pendingHandoff) lead.pendingHandoff = { type, requestedAt: nowTs() }
rememberPending(lead, active, now) ==
  IF lead.pendingHandoff = null
    THEN [lead EXCEPT !.pendingHandoff = [type |-> active, requestedAt |-> now]]
    ELSE lead

\* a ready branch that hands off first and confirms afterwards
ConfirmThenHandoff_handoffFirst(w) ==
  Only({ IF Awaiting(w3) THEN w3 ELSE Finish(w3) :
         w3 \in { sendWhatsApp(
                    upsertConversationFile(
                      [w2 EXCEPT !.lead = appendMessage(@, "bot", confirmText(w.lead), w.task.id)]),
                    w.task.from, "send_confirm") :
                  w2 \in { doHandoff(w1, w.task.activeType) :
                           w1 \in {upsertConversationFile(
                                     [w EXCEPT !.lead.pendingHandoff = null,
                                               !.task.verdict = "handoff",
                                               !.st.confirms = @ + 1])} } } })

\* The ready branch (lines 550-565): the confirmation is appended and sent,
\* and what follows the send is AfterConfirm.
ConfirmThenHandoff(w) ==
  Only({ IF Awaiting(w3) THEN w3 ELSE AfterConfirm(w3) :
         w3 \in { sendWhatsApp(w2, w.task.from, "send_confirm") :
                  w2 \in {upsertConversationFile(
                            [w EXCEPT !.lead = appendMessage(@, "bot", confirmText(w.lead), w.task.id),
                                      !.task.verdict = "handoff",
                                      !.st.confirms = @ + 1])} } })

\* processInbound from step 4 on, once a decision `out` was obtained.
\* The task keeps what the turn found: its active type, the decision,
\* whether the merge made the conversation ready (supplied) and the branch
\* taken (verdict).
ApplyDecision(w, out) ==
  Only({
    Only({
      IF active # "null"
        THEN IF ~ready(w1.lead)
               THEN ReplyAndReturn(
                      [w1 EXCEPT !.lead = rememberPending(@, active, nowTs),
                                 !.task.verdict = "pending"],
                      IF trim(out.reply) # "" THEN trim(out.reply) ELSE askMissingForHandoff(w1.lead))
               ELSE ConfirmThenHandoff(w1)
        ELSE ReplyAndReturn([w1 EXCEPT !.task.verdict = "reply"],
                            IF trim(out.reply) # "" THEN trim(out.reply) ELSE HELLO) :
      w1 \in { [w0 EXCEPT !.task.activeType = active,
                          !.task.decision = out,
                          !.task.supplied = ~ready(w.lead) /\ ready(w0.lead)] :
               w0 \in {upsertConversationFile(
                         [w EXCEPT !.lead.name = mergeField(@, out.name),
                                   !.lead.zone = mergeField(@, out.zone),
                                   !.lead.intentSummary = mergeField(@, out.intentSummary)])} } }) :
    active \in {activeHandoffType(w.task.pendingType, out)} })

\* The options of the two inference attempts: model, history window, deadline.
MainOpts == [model |-> "AI_MODEL_MAIN", historyN |-> 8, ms |-> 6500]
RetryOpts == [model |-> "AI_MODEL_RETRY", historyN |-> 4, ms |-> 4500]

\* An inference call is started and awaited under withTimeout.  task.aiLog keeps
\* the options of the calls the task has started.
StartInference(w, pc) ==
  [w EXCEPT !.task.pc = pc, !.task.aiCalls = @ + 1,
            !.task.aiLog = Append(@, IF pc = "ai_main" THEN MainOpts ELSE RetryOpts)]

\* a catch block that drops the pending handoff of the conversation
Catch_dropsPending(w) == [w EXCEPT !.task.aiErrs = @ + 1, !.lead.pendingHandoff = null]

\* An inference attempt threw and its catch block is entered.
Catch(w) == [w EXCEPT !.task.aiErrs = @ + 1]

\* withTimeout(promise, ms): when the timer wins the race the call is left
\* running with nobody awaiting it; any other failure is the call's own end.
withTimeout(w, why) ==
  IF why = "timeout" THEN [w EXCEPT !.task.abandoned = @ + 1] ELSE w

\* a retry catch that gives up without replying
Fallback_silent(w) == Finish(w)

\* a retry catch that forgets the pending handoff
Fallback_clearsPending(w) ==
  ReplyAndReturn([w EXCEPT !.lead.pendingHandoff = null],
                 IF w.task.pendingType # "null" THEN askMissingForHandoff(w.lead) ELSE TECH_FALLBACK)

\* a retry catch that rethrows
Fallback_throw(w) == Throw(w)

\* a retry catch that starts the retry again
Fallback_retryAgain(w) == StartInference(w, "ai_retry")

\* a retry catch whose reply depends on the clock
Fallback_byClock(w) ==
  ReplyAndReturn(w, IF w.task.pendingType # "null" THEN askMissingForHandoff(w.lead)
                    ELSE IF nowTs % 2 = 0 THEN TECH_FALLBACK ELSE HELLO)

\* a retry catch that guesses a price request from the inbound text
Fallback_guessIntent(w) ==
  IF w.task.incoming = "necesito presupuesto" /\ ~ready(w.lead)
    THEN Only({ ReplyAndReturn(w1, askMissingForHandoff(w1.lead)) :
                w1 \in {[w EXCEPT !.lead = rememberPending(@, "price", w.task.id)]} })
    ELSE ReplyAndReturn(w, IF w.task.pendingType # "null" THEN askMissingForHandoff(w.lead) ELSE TECH_FALLBACK)

\* The catch of the retry (lines 506-516): the local fallback reply.
Fallback(w) ==
  ReplyAndReturn(w, IF w.task.pendingType # "null" THEN askMissingForHandoff(w.lead) ELSE TECH_FALLBACK)

\* processInbound from its entry to its first await that suspends.
processInbound(w) ==
  IF w.lead.handedOff
    THEN Only({ IF Awaiting(w2) THEN w2 ELSE AfterHandedOffReply(w2) :
                w2 \in { sendWhatsApp(w1, w.task.from, "send_ho") :
                         w1 \in {upsertConversationFile(
                                   [w EXCEPT !.lead = appendMessage(@, "bot", ackText(w.lead), w.task.id)])} } })
    ELSE Only({ IF isTrivialGreeting(w.task.incoming)
                  THEN IF w1.task.pendingType # "null"
                         THEN ReplyAndReturn(w1, askMissingForHandoff(w.lead))
                         ELSE ReplyAndReturn(w1, HELLO)
                  ELSE StartInference(w1, "ai_main") :
                w1 \in {[w EXCEPT !.task.pendingType = safeHandoffType(w.lead.pendingHandoff.type)]} })

\* ----------------------------------------------------------------- actions

NewStats == [handoffs |-> 0, confirms |-> 0, snapshots |-> <<>>, sent |-> [pc \in SendPcs |-> 0]]

Init ==
  /\ DEV_MODE \in BOOLEAN
  /\ FAST_ACK \in BOOLEAN
  /\ HANDOFF_TO \in {"", "whatsapp:+5490"}
  /\ leads = <<>>
  /\ files = <<>>
  /\ tasks = <<>>
  /\ stats = [p \in Phones |-> NewStats]

World(t) ==
  LET p == tasks[t].phone
  IN  [lead |-> leads[p], file |-> files[p], st |-> stats[p], task |-> tasks[t]]

Commit(w) ==
  LET p == w.task.phone
  IN  /\ leads' = [leads EXCEPT ![p] = w.lead]
      /\ files' = [files EXCEPT ![p] = w.file]
      /\ stats' = [stats EXCEPT ![p] = w.st]
      /\ tasks' = [tasks EXCEPT ![w.task.id] = w.task]
      /\ UNCHANGED config

\* app.post("/whatsapp"): record the inbound message, answer the request when
\* FAST_ACK, and run processInbound up to its first suspension.
\* task.hoAtArrival keeps whether the conversation was handed off on arrival,
\* task.dev the DEV_MODE of the process that received the event.  task.abandoned
\* counts the calls of the task that lost the race against their deadline,
\* task.late the responses of such calls that arrived afterwards.
Webhook(from, body) ==
  /\ \E phone \in {normalizePhone(from)}, id \in {Len(tasks) + 1} :
       \E ls \in {getLead(leads, phone, id)} :
         \E w0 \in {[lead |-> appendMessage(ls[phone], "lead", trim(body), id),
                      file |-> <<>>,
                      st |-> stats[phone],
                      task |-> [id |-> id, from |-> from, phone |-> phone, incoming |-> trim(body),
                                pc |-> "start", pendingType |-> "null", activeType |-> "null",
                                aiCalls |-> 0, aiErrs |-> 0, aiLog |-> <<>>,
                                hoAtArrival |-> ls[phone].handedOff,
                                supplied |-> FALSE, verdict |-> "none",
                                decision |-> [reply |-> "", name |-> "", zone |-> "", intentSummary |-> "",
                                              handoff_intent |-> ""],
                                dev |-> DEV_MODE, abandoned |-> 0, late |-> 0,
                                handed |-> {}, acked |-> FAST_ACK]]} :
           \E w1 \in {upsertConversationFile(w0)} :
             \E w \in {processInbound(w1)} :
               /\ leads' = [x \in DOMAIN ls |-> IF x = phone THEN w.lead ELSE ls[x]]
               /\ files' = [x \in DOMAIN ls |-> IF x = phone THEN w.file ELSE files[x]]
               /\ stats' = [stats EXCEPT ![phone] = w.st]
               /\ tasks' = Append(tasks, w.task)
               /\ UNCHANGED config

\* The first inference call resolves with a parseable output before its deadline.
AiMainOk(t, parsed) ==
  /\ tasks[t].pc = "ai_main"
  /\ \E w0 \in {World(t)}, out \in {aiDecideAndReply(parsed)} : \E w \in {ApplyDecision(w0, out)} : Commit(w)

\* The first inference call fails: the retry is started.
AiMainFail(t, why) ==
  /\ tasks[t].pc = "ai_main"
  /\ \E w0 \in {Catch(withTimeout(World(t), why))} : \E w \in {StartInference(w0, "ai_retry")} : Commit(w)

AiRetryOk(t, parsed) ==
  /\ tasks[t].pc = "ai_retry"
  /\ \E w0 \in {World(t)}, out \in {aiDecideAndReply(parsed)} : \E w \in {ApplyDecision(w0, out)} : Commit(w)

AiRetryFail(t, why) ==
  /\ tasks[t].pc = "ai_retry"
  /\ \E w0 \in {Catch(withTimeout(World(t), why))} : \E w \in {Fallback(w0)} : Commit(w)

\* After the carrier call a task is suspended on resolved.
Resume(w) ==
  CASE w.task.pc = "send_confirm" -> AfterConfirm([w EXCEPT !.task.pc = "start"])
    [] w.task.pc = "send_ho" -> AfterHandedOffReply([w EXCEPT !.task.pc = "start"])
    [] OTHER -> Finish(w)

SendOk(t) ==
  /\ tasks[t].pc \in SendPcs
  /\ \E w0 \in {World(t)} : \E w \in {Resume(w0)} : Commit(w)

\* The carrier call rejects: processInbound rejects.
SendFail(t) ==
  /\ tasks[t].pc \in SendPcs
  /\ \E w0 \in {World(t)} : \E w \in {Throw(w0)} : Commit(w)

Next ==
  \/ \E from \in Froms, body \in Bodies : Len(tasks) < MaxInbound /\ Webhook(from, body)
  \/ \E t \in DOMAIN tasks, parsed \in Parsed : AiMainOk(t, parsed)
  \/ \E t \in DOMAIN tasks, why \in AiFailures : AiMainFail(t, why)
  \/ \E t \in DOMAIN tasks, parsed \in Parsed : AiRetryOk(t, parsed)
  \/ \E t \in DOMAIN tasks, why \in AiFailures : AiRetryFail(t, why)
  \/ \E t \in DOMAIN tasks : SendOk(t)
  \/ \E t \in DOMAIN tasks : SendFail(t)

Spec == Init /\ [][Next]_vars

\* ------------------------------------------------------------------ claims

InFlight(t) == tasks[t].pc \in AiPcs \cup SendPcs
Ended(t) == tasks[t].pc \in {"done", "failed"}
TasksOf(p) == {t \in DOMAIN tasks : tasks[t].phone = p}
IsLead(m) == m.from = "lead"
IsBot(m) == m.from = "bot"
IsSystem(m) == m.from = "system"
Customer(p) == SelectSeq(leads[p].messages, IsLead)
Assistant(p) == SelectSeq(leads[p].messages, IsBot)
IsPrefix(a, b) == Len(a) <= Len(b) /\ SubSeq(b, 1, Len(a)) = a

\* C1: for every sender, no two processing tasks of that sender are in flight
\* (suspended on an inference call or an outbound send) at the same time.
C1_OneTaskInFlightPerSender ==
  \A t1, t2 \in DOMAIN tasks :
    (t1 # t2 /\ tasks[t1].phone = tasks[t2].phone) => ~(InFlight(t1) /\ InFlight(t2))

C3_RepliesInArrivalOrder ==
  \A p \in DOMAIN leads :
    LET bots == Assistant(p)
    IN  \A i, j \in 1..Len(bots) : i < j => bots[i].id < bots[j].id

\* C4: the side effects of doHandoff (handedOff set, snapshot written, operator
\* notified) happen at most once per conversation.
C4_HandoffAtMostOnce ==
  \A p \in Phones :
    /\ stats[p].handoffs <= 1
    /\ Len(stats[p].snapshots) = stats[p].handoffs
    /\ stats[p].sent["send_notify"] <= stats[p].handoffs
    /\ p \in DOMAIN leads => (leads[p].handedOff <=> stats[p].handoffs = 1)

\* Two tasks of one conversation both found it ready and both reached
\* doHandoff: the second call did nothing.
C4_Witness ==
  \E p \in DOMAIN leads :
    /\ stats[p].confirms = 2
    /\ stats[p].handoffs = 1
    /\ \A t \in TasksOf(p) : tasks[t].pc = "done"

\* C5: in every reachable state a handed-off conversation has name, zone and
\* intentSummary all non-empty.
C5_HandedOffHasRequiredFields ==
  \A p \in DOMAIN leads :
    leads[p].handedOff =>
      leads[p].name # "" /\ leads[p].zone # "" /\ leads[p].intentSummary # ""

\* A handoff whose snapshot shows an entry of another task after the
\* confirmation: the other task ran between the readiness check and the handoff.
C5_Witness ==
  \E p \in DOMAIN leads :
    /\ leads[p].handedOff
    /\ \E s \in {stats[p].snapshots[k] : k \in 1..Len(stats[p].snapshots)} :
         \E i, j \in 1..Len(s.transcript.body) :
           /\ i < j
           /\ IsBot(s.transcript.body[i])
           /\ s.transcript.body[i].text = confirmText(leads[p])
           /\ s.transcript.body[j].id # s.transcript.body[i].id

C7_FieldsWriteOnce ==
  [][\A p \in DOMAIN leads :
       /\ leads[p].name # "" => leads'[p].name = leads[p].name
       /\ leads[p].zone # "" => leads'[p].zone = leads[p].zone
       /\ leads[p].intentSummary # "" => leads'[p].intentSummary = leads[p].intentSummary]_vars

\* A decision carrying another name (Bea, with zone Centro) was merged into a
\* conversation whose name was already Ana: the zone was taken, the name kept.
C7_Witness ==
  \E p \in DOMAIN leads : leads[p].name = "Ana" /\ leads[p].zone = "Centro"

\* C8: once handedOff is true it stays true.
C8_HandedOffMonotonic ==
  [][\A p \in DOMAIN leads : leads[p].handedOff => leads'[p].handedOff]_vars

\* A message arrived after the handoff, was answered in post-handoff mode and
\* its send failed; the conversation is still handed off.
C8_Witness ==
  \E t \in DOMAIN tasks :
    /\ tasks[t].pc = "failed"
    /\ "send_ho" \in tasks[t].handed
    /\ leads[tasks[t].phone].handedOff

\* C9: every step leaves the previous message log as a prefix of the new one,
\* and each inbound message is in its sender's log exactly once as a customer
\* entry.
C9_LogAppendOnly ==
  /\ [][\A p \in DOMAIN leads : IsPrefix(leads[p].messages, leads'[p].messages)]_vars
  /\ [](\A t \in DOMAIN tasks :
          LET msgs == leads[tasks[t].phone].messages
          IN  Cardinality({i \in 1..Len(msgs) : IsLead(msgs[i]) /\ msgs[i].id = t
                                                  /\ msgs[i].text = tasks[t].incoming}) = 1)

\* A log holding two customer entries, a reply and a system entry.
C9_Witness ==
  \E p \in DOMAIN leads :
    /\ Len(Customer(p)) = 2
    /\ Len(Assistant(p)) >= 1
    /\ \E i \in 1..Len(leads[p].messages) : IsSystem(leads[p].messages[i])

\* The steps of task t: each await it is suspended on settles.
TaskStep(t) ==
  /\ t \in DOMAIN tasks
  /\ \/ \E parsed \in Parsed : AiMainOk(t, parsed)
     \/ \E why \in AiFailures : AiMainFail(t, why)
     \/ \E parsed \in Parsed : AiRetryOk(t, parsed)
     \/ \E why \in AiFailures : AiRetryFail(t, why)
     \/ SendOk(t)
     \/ SendFail(t)

\* Timers fire (withTimeout settles every inference await) and every carrier
\* call resolves or rejects.
LiveSpec == Init /\ [][Next]_vars /\ \A t \in 1..MaxInbound : WF_vars(TaskStep(t))

RepliedTo(t) ==
  /\ \E i \in 1..Len(leads[tasks[t].phone].messages) :
       IsBot(leads[tasks[t].phone].messages[i]) /\ leads[tasks[t].phone].messages[i].id = t
  /\ tasks[t].handed \cap {"send_final", "send_ho", "send_confirm"} # {}

C11_DoubleFailureFallsBack ==
  /\ [][\A t \in DOMAIN tasks :
         (tasks[t].aiErrs = 1 /\ tasks'[t].aiErrs = 2) =>
           LET p == tasks[t].phone
               fallback == IF tasks[t].pendingType # "null"
                             THEN askMissingForHandoff(leads[p]) ELSE TECH_FALLBACK
           IN  /\ tasks'[t].pc \in {"send_final", "done"}
               /\ leads'[p].messages =
                    Append(leads[p].messages, [from |-> "bot", text |-> fallback, id |-> t])
               /\ "send_final" \in tasks'[t].handed
               /\ tasks'[t].aiCalls = tasks[t].aiCalls]_vars
  /\ [](\A t \in DOMAIN tasks : (tasks[t].aiErrs = 2 /\ Ended(t)) => tasks[t].acked)

\* Both attempts failed in a conversation with a pending handoff: the task ended
\* normally and its reply is the question for the missing fields.
C11_Witness ==
  \E t \in DOMAIN tasks :
    /\ tasks[t].aiErrs = 2
    /\ tasks[t].pc = "done"
    /\ tasks[t].pendingType # "null"
    /\ \E i \in 1..Len(leads[tasks[t].phone].messages) :
         /\ IsBot(leads[tasks[t].phone].messages[i])
         /\ leads[tasks[t].phone].messages[i].id = t
         /\ leads[tasks[t].phone].messages[i].text = askMissingForHandoff(leads[tasks[t].phone])

\* C12: a task starts at most two inference calls; the first with the main
\* options; the second only after a failure, exactly once after the first
\* failure, with a strictly shorter deadline and the retry model; after two
\* failures the task is never again suspended on an inference call.
C12_AtMostOneRetry ==
  \A t \in DOMAIN tasks :
    /\ tasks[t].aiCalls <= 2
    /\ Len(tasks[t].aiLog) = tasks[t].aiCalls
    /\ tasks[t].aiErrs <= tasks[t].aiCalls
    /\ tasks[t].aiCalls >= 1 => tasks[t].aiLog[1] = MainOpts
    /\ tasks[t].aiCalls = 2 =>
         /\ tasks[t].aiErrs >= 1
         /\ tasks[t].aiLog[2].ms < tasks[t].aiLog[1].ms
         /\ tasks[t].aiLog[2].model = "AI_MODEL_RETRY"
         /\ tasks[t].aiLog[2].model # tasks[t].aiLog[1].model
    /\ tasks[t].aiErrs >= 1 => tasks[t].aiCalls = 2
    /\ tasks[t].aiErrs = 2 => tasks[t].pc \notin AiPcs
    /\ tasks[t].pc = "ai_main" => (tasks[t].aiCalls = 1 /\ tasks[t].aiErrs = 0)
    /\ tasks[t].pc = "ai_retry" => (tasks[t].aiCalls = 2 /\ tasks[t].aiErrs = 1)

\* The first attempt failed and the retry gave the decision the task replied with.
C12_Witness ==
  \E t \in DOMAIN tasks :
    /\ tasks[t].aiErrs = 1
    /\ tasks[t].aiCalls = 2
    /\ tasks[t].pc = "done"

\* C13: a message that arrives in a handed-off conversation starts no inference
\* call and is answered with the acknowledgment template; with an operator
\* destination configured, its task has forwarded it to the operator once when
\* it has ended and outbound is not suppressed, and never when it is suppressed.
C13_PostHandoffAckAndForward ==
  \A t \in DOMAIN tasks :
    tasks[t].hoAtArrival =>
      LET p == tasks[t].phone
      IN  /\ tasks[t].aiCalls = 0
          /\ \E i \in 1..Len(leads[p].messages) :
               leads[p].messages[i] = [from |-> "bot", text |-> ackText(leads[p]), id |-> t]
          /\ stats[p].sent["send_forward"] <= Cardinality({u \in TasksOf(p) : tasks[u].hoAtArrival})
          /\ DEV_MODE => ("send_forward" \notin tasks[t].handed /\ stats[p].sent["send_forward"] = 0)
          /\ (~DEV_MODE /\ HANDOFF_TO # "" /\ Ended(t)) => "send_forward" \in tasks[t].handed

\* C14: in a handed-off conversation no step starts an inference call of any
\* of its tasks, merges a field or changes pendingHandoff.
C14_NoReasoningAfterHandoff ==
  [][\A t \in DOMAIN tasks :
       LET p == tasks[t].phone
       IN  leads[p].handedOff =>
             /\ tasks'[t].aiCalls = tasks[t].aiCalls
             /\ leads'[p].name = leads[p].name
             /\ leads'[p].zone = leads[p].zone
             /\ leads'[p].intentSummary = leads[p].intentSummary
             /\ leads'[p].pendingHandoff = leads[p].pendingHandoff]_vars

C16_AlwaysSuccessAck ==
  /\ [](\A t \in DOMAIN tasks : Ended(t) => tasks[t].acked)
  /\ \A t \in 1..MaxInbound : [](t \in DOMAIN tasks => <>(t \in DOMAIN tasks /\ tasks[t].acked))

\* Without FAST_ACK a task threw on the operator notification, after both
\* inference attempts of another had failed, and both requests are answered.
C16_Witness ==
  /\ ~FAST_ACK
  /\ \E t, u \in DOMAIN tasks :
       /\ tasks[t].pc = "failed" /\ "send_notify" \in tasks[t].handed /\ tasks[t].acked
       /\ tasks[u].pc = "done" /\ tasks[u].aiErrs = 2 /\ tasks[u].acked

\* C17: with DEV_MODE on no carrier call is ever made (no reply, no handoff
\* notification, no post-handoff forward) and no task waits on one, while a
\* handoff still sets handedOff, writes its snapshot and its system entry, and
\* every ended task has its reply in the message log.
C17_SandboxSendsNothing ==
  DEV_MODE =>
    /\ \A p \in Phones, pc \in SendPcs : stats[p].sent[pc] = 0
    /\ \A t \in DOMAIN tasks :
         /\ tasks[t].pc \notin SendPcs
         /\ Ended(t) => (tasks[t].pc = "done" /\ RepliedTo(t))
    /\ \A p \in DOMAIN leads :
         /\ leads[p].handedOff <=> stats[p].handoffs = 1
         /\ leads[p].handedOff =>
              /\ Len(stats[p].snapshots) = 1
              /\ stats[p].snapshots[1].transcript.handedOff
              /\ \E i \in 1..Len(leads[p].messages) :
                   /\ IsSystem(leads[p].messages[i])
                   /\ leads[p].messages[i].text =
                        "DEV_MODE: handoff suprimido. Tag=" \o stats[p].snapshots[1].tag

\* With DEV_MODE on and an operator destination configured, a conversation was
\* handed off and a later message was acknowledged in post-handoff mode.
C17_Witness ==
  /\ DEV_MODE
  /\ HANDOFF_TO # ""
  /\ \E t \in DOMAIN tasks :
       /\ tasks[t].hoAtArrival
       /\ tasks[t].pc = "done"
       /\ "send_ho" \in tasks[t].handed
       /\ Len(stats[tasks[t].phone].snapshots) = 1

\* C18: a turn that saw a pending handoff and whose merge supplied what was
\* missing has, once it has ended, replied with the confirmation and left the
\* conversation handed off, with pendingHandoff cleared and the notifier
\* invoked exactly once.
C18_LastFieldCompletesHandoff ==
  \A t \in DOMAIN tasks :
    (tasks[t].pendingType # "null" /\ tasks[t].supplied /\ Ended(t)) =>
      LET p == tasks[t].phone
      IN  /\ \E i \in 1..Len(leads[p].messages) :
               leads[p].messages[i] = [from |-> "bot", text |-> confirmText(leads[p]), id |-> t]
          /\ leads[p].handedOff
          /\ leads[p].pendingHandoff = null
          /\ stats[p].handoffs = 1
          /\ Len(stats[p].snapshots) = 1

\* C19 (as stated): the step in which a turn finds an active handoff type and
\* a required field still empty leaves handedOff false and pendingHandoff equal
\* to the turn's active type with requestedAt the current time.
C19_NotReadyRefreshesPending ==
  [][\A t \in DOMAIN tasks :
       (tasks[t].verdict = "none" /\ tasks'[t].verdict = "pending") =>
         LET p == tasks[t].phone
         IN  /\ ~leads'[p].handedOff
             /\ leads'[p].pendingHandoff =
                  [type |-> tasks'[t].activeType, requestedAt |-> Len(tasks')]]_vars

\* C19 (amended): that step leaves handedOff false and pendingHandoff set: one
\* that was already set is kept unchanged, its requestedAt included; otherwise
\* it becomes the turn's active type with requestedAt the current time.
C19_NotReadyKeepsOrSetsPending ==
  [][\A t \in DOMAIN tasks :
       (tasks[t].verdict = "none" /\ tasks'[t].verdict = "pending") =>
         LET p == tasks[t].phone
         IN  /\ ~leads'[p].handedOff
             /\ tasks'[t].activeType \in {"price", "visit"}
             /\ ~ready(leads'[p])
             /\ leads'[p].pendingHandoff # null
             /\ leads[p].pendingHandoff # null =>
                  leads'[p].pendingHandoff = leads[p].pendingHandoff
             /\ leads[p].pendingHandoff = null =>
                  leads'[p].pendingHandoff =
                    [type |-> tasks'[t].activeType, requestedAt |-> Len(tasks')]]_vars

\* A second turn of a conversation found its pending handoff still not ready,
\* at a later time than the one the pending handoff was requested at.
C19_Witness ==
  \E t \in DOMAIN tasks :
    /\ tasks[t].verdict = "pending"
    /\ tasks[t].pendingType # "null"
    /\ leads[tasks[t].phone].pendingHandoff # null
    /\ leads[tasks[t].phone].pendingHandoff.requestedAt < t

\* Conversations with every combination of empty and filled fields.
LeadCombos ==
  { [NewLead("+5491", 1) EXCEPT !.name = n, !.zone = z, !.intentSummary = i] :
    n \in {"", "Ana"}, z \in {"", "Centro"}, i \in {"", "toldo"} }

Missing(lead) ==
  {f \in {"intentSummary", "name", "zone"} : lead[f] = ""}

\* The first missing field in the order intentSummary, name, zone, availability.
FirstMissing(lead) ==
  IF lead.intentSummary = "" THEN "intentSummary"
  ELSE IF lead.name = "" THEN "name"
  ELSE IF lead.zone = "" THEN "zone"
  ELSE IF availability(lead) = "" THEN "availability"
  ELSE "none"

AsksFirstMissing(lead) == asks(askMissingForHandoff(lead)) = {FirstMissing(lead)}

\* One question that covers every missing field: all of intentSummary, name
\* and zone when the interest and another field are missing, otherwise exactly
\* the missing ones; never availability.
AsksAllMissing(lead) ==
  LET a == asks(askMissingForHandoff(lead))
  IN  /\ Missing(lead) \subseteq a
      /\ a \subseteq {"intentSummary", "name", "zone"}
      /\ a = IF lead.intentSummary = "" /\ Cardinality(Missing(lead)) >= 2
                THEN {"intentSummary", "name", "zone"} ELSE Missing(lead)

C22_GreetingShortcut ==
  /\ [][Len(tasks') = Len(tasks) + 1 =>
          LET t == Len(tasks')
              p == tasks'[t].phone
              old == IF p \in DOMAIN leads THEN leads[p] ELSE NewLead(p, t)
          IN  (tasks'[t].incoming = "Hola" /\ old.pendingHandoff = null /\ ~old.handedOff) =>
                /\ tasks'[t].aiCalls = 0
                /\ tasks'[t].pc \in {"send_final", "done"}
                /\ leads'[p].messages =
                     old.messages \o <<[from |-> "lead", text |-> "Hola", id |-> t],
                                       [from |-> "bot", text |-> HELLO, id |-> t]>>
                /\ leads'[p].name = old.name
                /\ leads'[p].zone = old.zone
                /\ leads'[p].intentSummary = old.intentSummary
                /\ leads'[p].pendingHandoff = null
                /\ ~leads'[p].handedOff]_vars
  /\ [](\A t \in DOMAIN tasks : tasks[t].incoming = "Hola" => tasks[t].aiCalls = 0)

\* A greeting arrived in a conversation that already had its interest and zone
\* but no pending handoff, and was answered with the fixed greeting.
C22_Witness ==
  \E t \in DOMAIN tasks :
    /\ tasks[t].incoming = "Hola"
    /\ tasks[t].pc = "done"
    /\ leads[tasks[t].phone].zone = "Fisherton"
    /\ leads[tasks[t].phone].pendingHandoff = null
    /\ leads[tasks[t].phone].messages[Len(leads[tasks[t].phone].messages)] =
         [from |-> "bot", text |-> HELLO, id |-> t]

\* The entries of task t's conversation that record a failure of task t.
FailureEntries(t) ==
  {i \in 1..Len(leads[tasks[t].phone].messages) :
     /\ IsSystem(leads[tasks[t].phone].messages[i])
     /\ leads[tasks[t].phone].messages[i].id = t
     /\ leads[tasks[t].phone].messages[i].text = "PROCESS_INBOUND_ERR: carrier error"}

\* C23: when the carrier rejects the operator notification of a handoff, the
\* failure is recorded as a system entry of that conversation's log and
\* handedOff stays true.
C23_NotifyFailureRecorded ==
  \A t \in DOMAIN tasks :
    (tasks[t].pc = "failed" /\ "send_notify" \in tasks[t].handed) =>
      /\ leads[tasks[t].phone].handedOff
      /\ FailureEntries(t) # {}

\* C24: a task that failed has a system entry recording the failure in its
\* conversation's log, and that entry precedes every entry of the later tasks
\* of the same sender other than their customer entries.
C24_TaskFailureRecordedBeforeNext ==
  \A t \in DOMAIN tasks :
    tasks[t].pc = "failed" =>
      /\ FailureEntries(t) # {}
      /\ \A i \in FailureEntries(t) :
           \A j \in 1..Len(leads[tasks[t].phone].messages) :
             (leads[tasks[t].phone].messages[j].id > t /\ ~IsLead(leads[tasks[t].phone].messages[j]))
               => i < j

\* No task of the conversation is suspended.
Quiescent(p) == \A t \in TasksOf(p) : ~InFlight(t)

\* A turn of the conversation found an active handoff type.
Requested(p) == \E t \in TasksOf(p) : tasks[t].verdict \in {"pending", "handoff"}

\* C26: whenever no task of a conversation is in flight, its pendingHandoff is
\* non-null exactly when a handoff was requested, the conversation is not
\* handed off and one of name, zone, intentSummary is still empty.
C26_PendingExactlyWhileIncomplete ==
  \A p \in DOMAIN leads :
    Quiescent(p) =>
      (leads[p].pendingHandoff # null
         <=> (Requested(p) /\ ~leads[p].handedOff /\ ~ready(leads[p])))

\* C27: a pendingHandoff that is set keeps its type in every step, except the
\* step that executes the handoff, which clears it.
C27_PendingPersists ==
  [][\A p \in DOMAIN leads :
       leads[p].pendingHandoff # null =>
         \/ /\ leads'[p].pendingHandoff # null
            /\ leads'[p].pendingHandoff.type = leads[p].pendingHandoff.type
         \/ /\ leads'[p].pendingHandoff = null
            /\ ~leads[p].handedOff
            /\ leads'[p].handedOff
            /\ stats'[p].handoffs = stats[p].handoffs + 1]_vars

\* A turn of a conversation pending for a price answered a decision that
\* reported a visit with the name still missing; the pending type is still price.
C27_Witness ==
  \E t \in DOMAIN tasks :
    /\ tasks[t].pendingType = "price"
    /\ tasks[t].verdict = "pending"
    /\ leads[tasks[t].phone].intentSummary = "toldo"
    /\ leads[tasks[t].phone].name = ""
    /\ leads[tasks[t].phone].pendingHandoff # null
    /\ leads[tasks[t].phone].pendingHandoff.type = "price"

\* C28: the active handoff type of a turn is the type of the conversation's
\* pendingHandoff when the decision is applied if one is set, else the
\* decision's intent if it is price or visit, else absent; and the step that
\* hands off a conversation pending with type T tags the handoff T.
C28_ActiveTypePrefersPending ==
  [][\A t \in DOMAIN tasks :
       LET p == tasks[t].phone
       IN  /\ (tasks[t].verdict = "none" /\ tasks'[t].verdict # "none") =>
                tasks'[t].activeType =
                  IF leads[p].pendingHandoff # null THEN leads[p].pendingHandoff.type
                  ELSE IF tasks'[t].decision.handoff_intent \in {"price", "visit"} THEN tasks'[t].decision.handoff_intent
                  ELSE "null"
           /\ (~leads[p].handedOff /\ leads'[p].handedOff /\ leads[p].pendingHandoff # null) =>
                stats'[p].snapshots[Len(stats'[p].snapshots)].tag = leads[p].pendingHandoff.type]_vars

\* The assistant entries a task appended to its conversation.
RepliesOf(t) ==
  SelectSeq(leads[tasks[t].phone].messages, LAMBDA m : IsBot(m) /\ m.id = t)

\* C29: a turn whose decision found an active handoff type and all required
\* fields non-empty replies with the fixed confirmation text and nothing else
\* (never the provider's reply), and once it has ended pendingHandoff is null.
C29_ReadyRepliesConfirmationAndClears ==
  \A t \in DOMAIN tasks :
    tasks[t].verdict = "handoff" =>
      LET p == tasks[t].phone
      IN  /\ Len(RepliesOf(t)) = 1
          /\ \E n \in {"Ana", "Bea"} :
               RepliesOf(t)[1].text = confirmText([name |-> n])
          /\ RepliesOf(t)[1].text # "Dale, te ayudo"
          /\ Ended(t) => leads[p].pendingHandoff = null

MaxTurns == 2
FirstRun == "+5491"
SecondRun == "+5492"
Turns(p) == Cardinality(TasksOf(p))

\* The task of the first run that task t of the second run replays.
Mirror(t) == t - Turns(FirstRun)

\* Task t may take a step: the first run stands still once the second started.
MayStep(t) == tasks[t].phone = FirstRun => TasksOf(SecondRun) = {}

\* The inference await of task t may resolve with this output in its run.
SameDecision(t, parsed) ==
  tasks[t].phone = SecondRun =>
    /\ tasks[Mirror(t)].aiErrs = tasks[t].aiErrs
    /\ tasks[Mirror(t)].decision = aiDecideAndReply(parsed)

\* The inference await of task t may fail in its run.
SameFailure(t) ==
  tasks[t].phone = SecondRun => tasks[Mirror(t)].aiErrs > tasks[t].aiErrs

FirstRunWebhook(body) ==
  /\ TasksOf(SecondRun) = {}
  /\ Turns(FirstRun) < MaxTurns
  /\ \A t \in TasksOf(FirstRun) : Ended(t) /\ tasks[t].dev = DEV_MODE
  /\ Webhook("whatsapp:" \o FirstRun, body)

SecondRunWebhook(body) ==
  /\ \A t \in DOMAIN tasks : Ended(t)
  /\ Turns(SecondRun) < Turns(FirstRun)
  /\ trim(body) = tasks[Turns(SecondRun) + 1].incoming
  /\ Webhook("whatsapp:" \o SecondRun, body)

\* The process of the second run starts: DEV_MODE is read from its environment.
Restart ==
  /\ TasksOf(SecondRun) = {}
  /\ \A t \in DOMAIN tasks : Ended(t)
  /\ DEV_MODE' = ~DEV_MODE
  /\ UNCHANGED <<FAST_ACK, HANDOFF_TO, leads, files, tasks, stats>>

PairNext ==
  \/ \E body \in Bodies : FirstRunWebhook(body)
  \/ \E body \in Bodies : SecondRunWebhook(body)
  \/ Restart
  \/ \E t \in DOMAIN tasks, parsed \in Parsed : MayStep(t) /\ SameDecision(t, parsed) /\ AiMainOk(t, parsed)
  \/ \E t \in DOMAIN tasks, why \in AiFailures : MayStep(t) /\ SameFailure(t) /\ AiMainFail(t, why)
  \/ \E t \in DOMAIN tasks, parsed \in Parsed : MayStep(t) /\ SameDecision(t, parsed) /\ AiRetryOk(t, parsed)
  \/ \E t \in DOMAIN tasks, why \in AiFailures : MayStep(t) /\ SameFailure(t) /\ AiRetryFail(t, why)
  \/ \E t \in DOMAIN tasks : MayStep(t) /\ SendOk(t)
  \/ \E t \in DOMAIN tasks : MayStep(t) /\ SendFail(t)

PairSpec == Init /\ [][PairNext]_vars

\* What a run leaves of a conversation, without clock readings.
Log(p) == [i \in 1..Len(leads[p].messages) |->
             [from |-> leads[p].messages[i].from, text |-> leads[p].messages[i].text]]
Fields(p) ==
  [name |-> leads[p].name, zone |-> leads[p].zone, intentSummary |-> leads[p].intentSummary,
   pendingHandoff |-> leads[p].pendingHandoff.type, handedOff |-> leads[p].handedOff]

\* Both runs processed the same events to the end, every send succeeding.
SameEventsDone ==
  /\ Turns(FirstRun) >= 1
  /\ Turns(SecondRun) = Turns(FirstRun)
  /\ \A t \in DOMAIN tasks : tasks[t].pc = "done"

\* The DEV_MODE of the process of a run.
RunDev(p) == \A t \in TasksOf(p) : tasks[t].dev
NotSystem(m) == ~IsSystem(m)
Conversation(p) == SelectSeq(Log(p), NotSystem)
SystemEntries(p) == SelectSeq(Log(p), IsSystem)
Tags(p) == [i \in 1..Len(stats[p].snapshots) |-> stats[p].snapshots[i].tag]

LateResponse_applies(t, parsed) ==
  /\ tasks[t].late < tasks[t].abandoned
  /\ \E w0 \in {[World(t) EXCEPT !.task.late = @ + 1]}, out \in {aiDecideAndReply(parsed)} :
       \E w \in {ApplyDecision(w0, out)} : Commit(w)

\* The provider answers a call that was abandoned at its deadline:
\* aiDecideAndReply runs to its return and resolves a promise whose race is
\* already settled, so the object it returns reaches nobody.
LateResponse(t, parsed) ==
  /\ tasks[t].late < tasks[t].abandoned
  /\ \E w0 \in {[World(t) EXCEPT !.task.late = @ + 1]}, out \in {aiDecideAndReply(parsed)} :
       \E w \in {w0} : Commit(w)

\* The server with the late responses of abandoned calls.
LateNext ==
  \/ Next
  \/ \E t \in DOMAIN tasks, parsed \in Parsed : LateResponse(t, parsed)

LateSpec == Init /\ [][LateNext]_vars

\* ------------------------------------------------------ claims C31 to C39

\* C31: while a task awaits a decision it changes nothing of its conversation:
\* the step in which its first attempt fails and the retry starts leaves the
\* lead, its transcript file and the carrier bookkeeping as they were, and the
\* step in which the retry fails changes the lead only by appending the
\* fallback reply.
C31_DecidingMutatesNothing ==
  [][\A t \in DOMAIN tasks :
       LET p == tasks[t].phone
       IN  /\ (tasks[t].pc = "ai_main" /\ tasks'[t].pc = "ai_retry") =>
                /\ leads'[p] = leads[p]
                /\ files'[p] = files[p]
                /\ stats'[p] = stats[p]
           /\ (tasks[t].pc = "ai_retry" /\ tasks'[t].aiErrs = 2) =>
                /\ Len(leads'[p].messages) = Len(leads[p].messages) + 1
                /\ IsBot(leads'[p].messages[Len(leads'[p].messages)])
                /\ leads'[p] = [leads[p] EXCEPT !.messages = leads'[p].messages]
                /\ SubSeq(leads'[p].messages, 1, Len(leads[p].messages)) = leads[p].messages]_vars

\* A conversation that had a name and a pending price handoff kept both through
\* a turn that lost both attempts.
C31_Witness ==
  \E t \in DOMAIN tasks :
    LET p == tasks[t].phone
    IN  /\ tasks[t].aiErrs = 2
        /\ tasks[t].pc = "done"
        /\ leads[p].name = "Ana"
        /\ leads[p].zone = ""
        /\ leads[p].pendingHandoff.type = "price"
        /\ leads[p].pendingHandoff.requestedAt < t
        /\ ~leads[p].handedOff

\* C32: the response of a call abandoned at its deadline, arriving during or
\* after the retry, changes no lead, no transcript file, no carrier bookkeeping
\* and nothing of any task but the count of late responses: the reply, the
\* fields, pendingHandoff and handedOff of every conversation stay as they are.
C32_LateResponseDiscarded ==
  [][\A t \in DOMAIN tasks :
       tasks'[t].late # tasks[t].late =>
         /\ leads' = leads
         /\ files' = files
         /\ stats' = stats
         /\ tasks' = [tasks EXCEPT ![t].late = tasks[t].late + 1]
         /\ tasks[t].late < tasks[t].abandoned]_vars

\* The first call timed out, the retry's decision asked for the missing fields
\* of a price handoff, and the first call's response arrived after the task
\* had ended; another task still awaits its retry with a late response in.
C32_Witness ==
  /\ \E t \in DOMAIN tasks :
       /\ tasks[t].late = 1
       /\ tasks[t].aiErrs = 1
       /\ tasks[t].pc = "done"
       /\ tasks[t].verdict = "pending"
  /\ \E t \in DOMAIN tasks : tasks[t].late = 1 /\ tasks[t].pc = "ai_retry"

\* The task failed at the send of its reply to the customer: it had asked for
\* no send to the operator yet.
ReplySendFailed(t) ==
  /\ tasks[t].pc = "failed"
  /\ tasks[t].handed \cap {"send_notify", "send_forward"} = {}

\* C33: a task whose reply send was rejected has recorded the failure as a
\* system entry of its conversation, and the transitions of its turn were
\* carried out: if the turn found the conversation ready for a handoff, the
\* conversation is handed off and pendingHandoff is null.
C33_ReplySendFailureDoesNotBlock ==
  \A t \in DOMAIN tasks :
    ReplySendFailed(t) =>
      LET p == tasks[t].phone
      IN  /\ \E i \in 1..Len(leads[p].messages) :
               IsSystem(leads[p].messages[i]) /\ leads[p].messages[i].id = t
          /\ tasks[t].verdict = "handoff" =>
               (leads[p].handedOff /\ leads[p].pendingHandoff = null)

\* C34: in the step that sets handedOff, the task that hands off has already
\* appended its confirmation and handed it to the send (without DEV_MODE the
\* carrier call was made in an earlier step and has resolved); the snapshot
\* written in that step shows the confirmation, and the operator had not been
\* notified before.  No operator notification precedes the first confirmation.
C34_ConfirmBeforeNotifier ==
  /\ [][\A p \in DOMAIN leads :
         (~leads[p].handedOff /\ leads'[p].handedOff) =>
           \E t \in TasksOf(p) :
             /\ tasks'[t] # tasks[t]
             /\ tasks'[t].verdict = "handoff"
             /\ "send_confirm" \in tasks'[t].handed
             /\ ~DEV_MODE => (tasks[t].pc = "send_confirm" /\ stats[p].sent["send_confirm"] >= 1)
             /\ stats[p].sent["send_notify"] = 0
             /\ Len(stats[p].snapshots) = 0
             /\ LET body == stats'[p].snapshots[1].transcript.body
                IN  \E i \in 1..Len(body) :
                      body[i] = [from |-> "bot", text |-> confirmText(leads'[p]), id |-> t]
             /\ ~DEV_MODE =>
                  \E i \in 1..Len(leads[p].messages) :
                    leads[p].messages[i] = [from |-> "bot", text |-> confirmText(leads[p]), id |-> t]]_vars
  /\ [](\A p \in Phones :
          /\ stats[p].sent["send_notify"] <= stats[p].sent["send_confirm"]
          /\ stats[p].handoffs <= stats[p].confirms)

\* A task awaits the operator notification of its handoff: its confirmation
\* was sent to the customer and is the last entry of the snapshot.
C34_Witness ==
  \E t \in DOMAIN tasks :
    LET p == tasks[t].phone
    IN  /\ tasks[t].pc = "send_notify"
        /\ leads[p].handedOff
        /\ stats[p].sent["send_confirm"] = 1
        /\ stats[p].sent["send_notify"] = 1
        /\ LET body == stats[p].snapshots[1].transcript.body
           IN  body[Len(body)] = [from |-> "bot", text |-> confirmText(leads[p]), id |-> t]

\* C35: in every state (tasks are suspended on an inference call or a send, or
\* have ended) the transcript file of every conversation is the rendering of
\* the lead as it is in memory: fields, handedOff, pendingHandoff and the full
\* message log.
C35_WriteThroughTranscript ==
  /\ DOMAIN files = DOMAIN leads
  /\ \A p \in DOMAIN leads :
       /\ files[p] = buildTranscript(leads[p])
       /\ files[p].body = leads[p].messages
       /\ files[p].handedOff = leads[p].handedOff
       /\ files[p].pendingHandoff = leads[p].pendingHandoff

\* A task is suspended on a send while its conversation is pending with a name
\* and two customer entries, and the file on disk shows all of it.
C35_Witness ==
  \E t \in DOMAIN tasks :
    LET p == tasks[t].phone
    IN  /\ tasks[t].pc = "send_final"
        /\ files[p].name = "Ana"
        /\ files[p].zone = "sin_zona"
        /\ files[p].pendingHandoff.type = "price"
        /\ Len(files[p].body) = 4
        /\ files[p].body[4].id = t

\* The task whose step (or whose arrival) this step is, is of sender f.
StepOf(f) ==
  \E t \in DOMAIN tasks' :
    /\ tasks'[t].from = f
    /\ t \in DOMAIN tasks => tasks'[t] # tasks[t]

\* C36: a step triggered by one sender (a webhook event of that sender or a
\* step of one of its tasks) leaves the conversation of every other sender as
\* it was: lead, transcript file and carrier bookkeeping.
C36_ConversationIsolation ==
  [][\A f, g \in Froms :
       (f # g /\ StepOf(g) /\ normalizePhone(f) \in DOMAIN leads) =>
         /\ leads'[normalizePhone(f)] = leads[normalizePhone(f)]
         /\ files'[normalizePhone(f)] = files[normalizePhone(f)]
         /\ stats'[normalizePhone(f)] = stats[normalizePhone(f)]]_vars

\* Two senders, each with one completed turn: one conversation was handed off
\* with its own fields, the other is pending with a different name.
C36_Witness ==
  /\ Len(tasks) = 2
  /\ tasks[1].from # tasks[2].from
  /\ tasks[1].pc = "done" /\ tasks[2].pc = "done"
  /\ leads[tasks[1].phone].handedOff
  /\ leads[tasks[1].phone].name = "Bea"
  /\ leads[tasks[2].phone].name = "Ana"
  /\ leads[tasks[2].phone].pendingHandoff.type = "price"

\* C37: in every state a handed-off conversation has no pending handoff; the
\* step that sets handedOff leaves pendingHandoff null, and no step of any task
\* sets pendingHandoff in a handed-off conversation.
C37_HandedOffHasNoPending ==
  /\ [](\A p \in DOMAIN leads : leads[p].handedOff => leads[p].pendingHandoff = null)
  /\ [][\A p \in DOMAIN leads :
         /\ (~leads[p].handedOff /\ leads'[p].handedOff) => leads'[p].pendingHandoff = null
         /\ leads[p].handedOff => leads'[p].pendingHandoff = null]_vars

\* A conversation whose pending price handoff was completed by a later turn:
\* handed off with the tag price, pendingHandoff null, while the task of the
\* turn that had set it is still in flight.
C37_Witness ==
  \E t, u \in DOMAIN tasks :
    LET p == tasks[t].phone
    IN  /\ tasks[u].phone = p
        /\ tasks[u].verdict = "pending" /\ InFlight(u)
        /\ tasks[t].pendingType = "price" /\ tasks[t].verdict = "handoff"
        /\ leads[p].handedOff
        /\ leads[p].pendingHandoff = null
        /\ stats[p].snapshots[1].tag = "price"

\* The confirmation entries of a conversation's log.
Confirmations(p) ==
  {i \in 1..Len(leads[p].messages) :
     /\ IsBot(leads[p].messages[i])
     /\ \E n \in {"Ana", "Bea"} : leads[p].messages[i].text = confirmText([name |-> n])}

\* C38: in every state each conversation has at most one confirmation entry
\* in its log and at most one confirmation was handed to the send.
C38_ConfirmationAtMostOnce ==
  \A p \in DOMAIN leads :
    /\ Cardinality(Confirmations(p)) <= 1
    /\ stats[p].confirms <= 1
    /\ stats[p].sent["send_confirm"] <= 1

\* C39: a task that completed without an exception has appended exactly one
\* assistant entry, no task has appended more than one, and in every state the
\* assistant entries of a conversation are at most as many as its customer
\* entries.
C39_OneReplyPerTask ==
  /\ \A t \in DOMAIN tasks :
       /\ Len(RepliesOf(t)) <= 1
       /\ tasks[t].pc = "done" => Len(RepliesOf(t)) = 1
  /\ \A p \in DOMAIN leads :
       /\ Len(Assistant(p)) <= Len(Customer(p))
       /\ \A i \in 1..Len(leads[p].messages) :
            IsBot(leads[p].messages[i]) => leads[p].messages[i].id \in TasksOf(p)

\* Two completed turns under DEV_MODE, the second a handoff: two customer
\* entries, two assistant entries and the system entry of the handoff.
C39_Witness ==
  \E p \in DOMAIN leads :
    /\ \A t \in TasksOf(p) : tasks[t].pc = "done"
    /\ Len(Customer(p)) = 2
    /\ Len(Assistant(p)) = 2
    /\ Len(leads[p].messages) = 5
    /\ IsSystem(leads[p].messages[5])
    /\ leads[p].handedOff
====
